---- MODULE Spec2Model ----
(***************************************************************************)
(* ChatWithPdf (src/app.py): a Streamlit script that ingests an uploaded   *)
(* PDF into a FAISS index and answers chat questions with a hosted model.  *)
(*                                                                         *)
(* Streamlit reruns the whole script, top to bottom, for one session on    *)
(* every event of that session (first page load, a widget change, a chat   *)
(* submission).  st.session_state and the widget values belong to one      *)
(* session; the files temp.pdf and faiss_index belong to the process and   *)
(* are shared by all of its sessions.  A run is modelled as the sequence   *)
(* of the script's steps; pc[s] is the position of session s in its run.   *)
(* An event is accepted when the session's previous run has ended.         *)
(***************************************************************************)
EXTENDS Integers, Sequences, FiniteSets

\* ------------------------------------------------------------------ bounds

\* Chat submissions accepted per session.
MaxTurns == 2
\* Chunks the splitter produces for one PDF.
ChunksPerDoc == 2
\* Pieces an input text of clean_response is concatenated from.
MaxPieces == 5

\* ------------------------------------------------------- program constants

\* search_kwargs={"k": 2}
k == 2
\* st.slider(min_value=512, ..., value=1024, step=512)
slider_min == 512
slider_step == 512
slider_default == 1024

\* The model catalog: identifier -> "tokens" (the maximum-token ceiling).
models ==
  [m \in {"mixtral-8x7b-32768", "llama3-8b-8192", "gemma2-9b-it",
          "deepseek-r1-distill-llama-70b"} |->
     CASE m = "mixtral-8x7b-32768" -> 32768
       [] m = "llama3-8b-8192" -> 8192
       [] m = "gemma2-9b-it" -> 8192
       [] m = "deepseek-r1-distill-llama-70b" -> 16384]

\* st.selectbox(..., index=0): the first key of the catalog.
default_model == "mixtral-8x7b-32768"

\* ------------------------------------------------------------- the sessions

Sessions == {"s1", "s2"}
SingleSession == {"s1"}

\* ------------------------------------------------------------ input domains

\* Uploaded files: two PDFs with text, and one file PDFPlumberLoader cannot parse.
Files == {"A", "B", "X"}
NoFile == "no file"
Parseable(f) == f \in {"A", "B"}

\* The chunks text_splitter.split_documents makes of the pages of PDF f.
Chunks(f) == {<<f, i>> : i \in 1..ChunksPerDoc}

\* Python's None, a FAISS vector store, and the two other states of the
\* faiss_index directory: missing, and left behind by a save_local that raised.
None == [kind |-> "None"]
FAISS(chunks) == [kind |-> "FAISS", chunks |-> chunks]
Missing == [kind |-> "missing"]
Partial == [kind |-> "partial"]

\* Texts are sequences of characters.
ThinkOpen == <<"<", "t", "h", "i", "n", "k", ">">>
ThinkClose == <<"<", "/", "t", "h", "i", "n", "k", ">">>
ErrorPrefix == <<"E", "r", "r", "o", "r", ":", " ">>
Whitespace == {" ", "\n", "\t"}

\* The positions a user can drag the slider to, for a slider whose max_value is
\* max: min_value, min_value + step, ... up to max (a sample of them).
SliderSample == {512, 1024, 8192, 8704, 16384, 16896, 32768}
SliderPositions(max) ==
  {v \in SliderSample : v >= slider_min /\ v <= max /\ (v - slider_min) % slider_step = 0}

\* Questions typed into the chat input.
Prompts == {<<"Q">>}
NoPrompt == <<>>

\* What client.chat.completions.create can do: return a completion whose first
\* choice holds a text, return one whose content is None (a malformed response:
\* re.sub then raises a TypeError), or raise (authentication, network, rate limit)
\* with a description.
Replies ==
  { ThinkOpen \o <<"a", "\n", "a">> \o ThinkClose \o <<"\n", "b">>,
    <<"a", " ">> }
ApiErrors == {<<"4", "0", "1">>}
TypeErrorText == <<"s", "t", "r">>
ApiOutcomes ==
  {[kind |-> "text", content |-> r] : r \in Replies}
    \cup {[kind |-> "no text"]}
    \cup {[kind |-> "raise", e |-> e] : e \in ApiErrors}

\* -------------------------------------------------------------------- state

VARIABLES
  api_key,         \* os.getenv("GROQ_API_KEY") is set (fixed for the process)
  temp_pdf,        \* the content of the file temp.pdf: the file last written to it
  faiss_index,     \* the directory faiss_index: Missing, a saved index, or Partial
  ss_vectorstore,  \* st.session_state.vectorstore of each session
  messages,        \* st.session_state["messages"] of each session (absent = <<>>)
  model_option,    \* the selectbox's value
  max_tokens,      \* the slider's value
  uploaded_file,   \* the file uploader's value
  prompt,          \* the chat submission that started the current run
  pc,              \* the position of the session's run in the script
  docs,            \* local: the file whose pages loader.load() returned
  vectorstore,     \* local: the index FAISS.from_documents built
  rendered,        \* the widgets the session's page shows
  notice,          \* st.error / st.success / uncaught-exception boxes of the last run
  last_request,    \* the chat-completion request the session's last run sent
  n_chats,         \* history: chat submissions that passed the gate of line 95
  n_retrievals,    \* history: calls of retriever.get_relevant_documents
  n_requests,      \* history: chat-completion requests sent
  last_api,        \* history: outcome of the completion call in the last run
  slider_moved,    \* history: the user has moved the slider
  index_origin,    \* history: how the session got its index ("none", "ingested", "loaded")
  cr_input,        \* clean_response under test: the input text
  cr_once,         \* clean_response(cr_input)
  cr_twice,        \* clean_response(clean_response(cr_input))
  cr_pc            \* how many times clean_response has been applied

vars ==
  <<api_key, temp_pdf, faiss_index, ss_vectorstore, messages, model_option,
    max_tokens, uploaded_file, prompt, pc, docs, vectorstore, rendered, notice,
    last_request, n_chats, n_retrievals, n_requests, last_api, slider_moved,
    index_origin, cr_input, cr_once, cr_twice, cr_pc>>

shared == <<temp_pdf, faiss_index>>
widgets == <<model_option, max_tokens, uploaded_file, prompt, slider_moved>>
locals == <<docs, vectorstore>>
chat == <<messages, last_request, n_chats, n_retrievals, n_requests, last_api>>
cr == <<cr_input, cr_once, cr_twice, cr_pc>>

NoRequest == [kind |-> "no request"]
Sidebar == {"model", "slider", "uploader"}

\* ------------------------------------------------------------ clean_response

Min(S) == CHOOSE x \in S : \A y \in S : x <= y
Max(S) == CHOOSE x \in S : \A y \in S : x >= y

\* pat occurs in text at position i.
IsAt(text, pat, i) ==
  /\ i >= 1
  /\ i + Len(pat) - 1 <= Len(text)
  /\ \A j \in 1..Len(pat) : text[i + j - 1] = pat[j]

\* The first position >= from where pat occurs in text, 0 when there is none.
Find(text, pat, from) ==
  LET hits == {i \in from..(Len(text) - Len(pat) + 1) : IsAt(text, pat, i)}
  IN IF hits = {} THEN 0 ELSE Min(hits)

\* re.sub(r"<think>.*?</think>", "", text, flags=re.DOTALL): the regex engine takes
\* the leftmost position where the pattern matches, and there the shortest match
\* (.*? is non-greedy and, with DOTALL, crosses newlines); it deletes the match and
\* goes on after it.  The pattern matches at an occurrence of <think> iff a </think>
\* begins at or after its end; a </think> that serves a later <think> also serves the
\* first one, so the leftmost match starts at the first <think>.
RECURSIVE re_sub(_)
re_sub(text) ==
  LET i == Find(text, ThinkOpen, 1)
      j == IF i = 0 THEN 0 ELSE Find(text, ThinkClose, i + Len(ThinkOpen))
  IN IF i = 0 \/ j = 0
       THEN text
       ELSE SubSeq(text, 1, i - 1)
              \o re_sub(SubSeq(text, j + Len(ThinkClose), Len(text)))

\* str.strip(): drop the leading and the trailing whitespace.
strip(text) ==
  LET keep == {i \in 1..Len(text) : text[i] \notin Whitespace}
  IN IF keep = {} THEN <<>> ELSE SubSeq(text, Min(keep), Max(keep))

\* A slip: re.sub(..., count=1) removes the first match only.
clean_response_first_match(response) ==
  LET i == Find(response, ThinkOpen, 1)
      j == IF i = 0 THEN 0 ELSE Find(response, ThinkClose, i + Len(ThinkOpen))
  IN strip(IF i = 0 \/ j = 0
             THEN response
             ELSE SubSeq(response, 1, i - 1)
                    \o SubSeq(response, j + Len(ThinkClose), Len(response)))

clean_response(response) == strip(re_sub(response))

\* The input texts: concatenations of at most MaxPieces pieces.  The pieces hold
\* the two tags, two fragments that make a tag when they meet, a letter and a
\* newline.
Pieces ==
  { ThinkOpen, ThinkClose, <<"<", "t", "h", "i">>, <<"n", "k", ">">>, <<"a">>,
    <<"\n">> }

RECURSIVE Flatten(_)
Flatten(ps) == IF ps = <<>> THEN <<>> ELSE Head(ps) \o Flatten(Tail(ps))

Texts == {Flatten(ps) : ps \in UNION {[1..n -> Pieces] : n \in 0..MaxPieces}}

\* ---------------------------------------------------------------- operators

\* Line 29: the slider's value in a run.  A widget without a key is identified by
\* its parameters; max_value is one of them, so a model with another ceiling makes
\* a new slider, which starts at value=1024, and a model with the same ceiling
\* keeps the slider and its position.
slider_keeps_position(position, old_max, new_max) == position

slider(position, old_max, new_max) ==
  IF new_max = old_max THEN position ELSE slider_default

\* Line 73: the condition under which the persisted index is loaded.
load_condition_exists_only(s) == faiss_index # Missing

load_condition(s) == ss_vectorstore[s] = None /\ faiss_index # Missing

\* Line 77: retriever is None unless the session holds an index; line 95 renders
\* the chat input, and handles a submission, only when retriever is truthy.
retriever_unchecked(s) == TRUE

retriever(s) == ss_vectorstore[s] # None

\* retriever.get_relevant_documents(prompt): the k most similar chunks of the
\* index (all of them when it holds fewer).
get_relevant_documents(index) ==
  {R \in SUBSET index.chunks :
     Cardinality(R) = IF Cardinality(index.chunks) < k
                        THEN Cardinality(index.chunks) ELSE k}

\* Lines 106-114: the completion call inside try/except Exception.  The result is
\* the assistant's text; raised says that an exception left the block.
bot_response_unguarded(outcome) ==
  IF outcome.kind = "text"
    THEN [raised |-> FALSE, content |-> clean_response(outcome.content)]
    ELSE [raised |-> TRUE, content |-> <<>>]

bot_response(outcome) ==
  CASE outcome.kind = "text" ->
         [raised |-> FALSE, content |-> clean_response(outcome.content)]
    [] outcome.kind = "no text" ->
         [raised |-> FALSE, content |-> ErrorPrefix \o TypeErrorText]
    [] outcome.kind = "raise" ->
         [raised |-> FALSE, content |-> ErrorPrefix \o outcome.e]

\* --------------------------------------------------------------------- Init

InitProgram ==
  /\ temp_pdf = NoFile
  /\ ss_vectorstore = [s \in Sessions |-> None]
  /\ messages = [s \in Sessions |-> <<>>]
  /\ model_option = [s \in Sessions |-> default_model]
  /\ max_tokens = [s \in Sessions |-> slider_default]
  /\ uploaded_file = [s \in Sessions |-> NoFile]
  /\ prompt = [s \in Sessions |-> NoPrompt]
  /\ pc = [s \in Sessions |-> "idle"]
  /\ docs = [s \in Sessions |-> NoFile]
  /\ vectorstore = [s \in Sessions |-> None]
  /\ rendered = [s \in Sessions |-> {}]
  /\ notice = [s \in Sessions |-> {}]
  /\ last_request = [s \in Sessions |-> NoRequest]
  /\ n_chats = [s \in Sessions |-> 0]
  /\ n_retrievals = [s \in Sessions |-> 0]
  /\ n_requests = [s \in Sessions |-> 0]
  /\ last_api = [s \in Sessions |-> "none"]
  /\ slider_moved = [s \in Sessions |-> FALSE]
  /\ index_origin = [s \in Sessions |-> "none"]

\* The process starts with or without the credential, and with or without an
\* index persisted by an earlier process.
Init ==
  /\ InitProgram
  /\ api_key \in BOOLEAN
  /\ faiss_index \in {Missing, FAISS(Chunks("A"))}
  /\ cr_input = <<>>
  /\ cr_once = <<>>
  /\ cr_twice = <<>>
  /\ cr_pc = 0

\* ------------------------------------------------------------------- events

\* Lines 18-51, run for an event that leaves the widgets at mo, mt, uf and the chat
\* input at p: the sidebar is rendered, then the credential is checked; st.stop()
\* ends the run there.  Otherwise the run goes on to the upload block.
ScriptTop(s, mo, mt, uf, p, moved) ==
  /\ pc[s] = "idle"
  /\ model_option' = [model_option EXCEPT ![s] = mo]
  /\ max_tokens' = [max_tokens EXCEPT ![s] = mt]
  /\ uploaded_file' = [uploaded_file EXCEPT ![s] = uf]
  /\ prompt' = [prompt EXCEPT ![s] = p]
  /\ slider_moved' = [slider_moved EXCEPT ![s] = moved]
  /\ rendered' = [rendered EXCEPT ![s] = Sidebar]
  /\ last_api' = [last_api EXCEPT ![s] = "none"]
  /\ last_request' = [last_request EXCEPT ![s] = NoRequest]
  /\ notice' = [notice EXCEPT ![s] = IF api_key THEN {} ELSE {"api_key_error"}]
  /\ pc' = [pc EXCEPT ![s] =
              IF ~api_key THEN "idle"
              ELSE IF uf # NoFile THEN "write_temp" ELSE "load_index"]
  /\ UNCHANGED <<api_key, shared, ss_vectorstore, locals, messages, n_chats,
                 n_retrievals, n_requests, index_origin, cr>>

\* The browser opens the page: the first run of the session.
PageLoad(s) ==
  /\ rendered[s] = {}
  /\ ScriptTop(s, model_option[s], max_tokens[s], uploaded_file[s], NoPrompt,
               slider_moved[s])

\* The user picks another model in the selectbox.
SelectModel(s) ==
  /\ "model" \in rendered[s]
  /\ \E m \in DOMAIN models \ {model_option[s]} :
       ScriptTop(s, m, slider(max_tokens[s], models[model_option[s]], models[m]),
                 uploaded_file[s], NoPrompt, slider_moved[s])

\* The user drags the slider to another position.
MoveSlider(s) ==
  /\ "slider" \in rendered[s]
  /\ \E v \in SliderPositions(models[model_option[s]]) \ {max_tokens[s]} :
       ScriptTop(s, model_option[s], v, uploaded_file[s], NoPrompt, TRUE)

\* The user uploads a file (replacing the one in the uploader).
Upload(s) ==
  /\ "uploader" \in rendered[s]
  /\ \E f \in Files \ {uploaded_file[s]} :
       ScriptTop(s, model_option[s], max_tokens[s], f, NoPrompt, slider_moved[s])

\* The user removes the file from the uploader.
RemoveFile(s) ==
  /\ "uploader" \in rendered[s]
  /\ uploaded_file[s] # NoFile
  /\ ScriptTop(s, model_option[s], max_tokens[s], NoFile, NoPrompt, slider_moved[s])

\* The user submits a question in the chat input.
SubmitChat(s) ==
  /\ "chat_input" \in rendered[s]
  /\ n_chats[s] < MaxTurns
  /\ \E q \in Prompts :
       ScriptTop(s, model_option[s], max_tokens[s], uploaded_file[s], q,
                 slider_moved[s])

\* ---------------------------------------------------------- the upload block

\* An exception no handler catches ends the run: Streamlit shows it and the rest
\* of the script is not executed.
Raise(s) ==
  /\ pc' = [pc EXCEPT ![s] = "idle"]
  /\ notice' = [notice EXCEPT ![s] = @ \cup {"exception"}]
  /\ docs' = [docs EXCEPT ![s] = NoFile]
  /\ vectorstore' = [vectorstore EXCEPT ![s] = None]

\* Lines 56-57: the upload is written to temp.pdf.
WriteTemp(s) ==
  /\ pc[s] = "write_temp"
  /\ temp_pdf' = uploaded_file[s]
  /\ pc' = [pc EXCEPT ![s] = "load_pdf"]
  /\ UNCHANGED <<api_key, faiss_index, ss_vectorstore, widgets, locals, rendered,
                 notice, chat, index_origin, cr>>

\* Lines 59-60: PDFPlumberLoader("temp.pdf").load() reads what temp.pdf holds now.
LoadPdf(s) ==
  /\ pc[s] = "load_pdf"
  /\ Parseable(temp_pdf)
  /\ docs' = [docs EXCEPT ![s] = temp_pdf]
  /\ pc' = [pc EXCEPT ![s] = "build"]
  /\ UNCHANGED <<api_key, shared, ss_vectorstore, widgets, vectorstore, rendered,
                 notice, chat, index_origin, cr>>

LoadPdfRaises(s) ==
  /\ pc[s] = "load_pdf"
  /\ ~Parseable(temp_pdf)
  /\ Raise(s)
  /\ UNCHANGED <<api_key, shared, ss_vectorstore, widgets, rendered, chat,
                 index_origin, cr>>

\* Lines 62-66: split, embed, FAISS.from_documents: a fresh index of the chunks.
Build(s) ==
  /\ pc[s] = "build"
  /\ vectorstore' = [vectorstore EXCEPT ![s] = FAISS(Chunks(docs[s]))]
  /\ pc' = [pc EXCEPT ![s] = "save_local"]
  /\ UNCHANGED <<api_key, shared, ss_vectorstore, widgets, docs, rendered, notice,
                 chat, index_origin, cr>>

\* The embedding model cannot be loaded, or embedding fails.
BuildRaises(s) ==
  /\ pc[s] = "build"
  /\ Raise(s)
  /\ UNCHANGED <<api_key, shared, ss_vectorstore, widgets, rendered, chat,
                 index_origin, cr>>

\* Line 67: vectorstore.save_local("faiss_index") overwrites the persisted index.
SaveLocal(s) ==
  /\ pc[s] = "save_local"
  /\ faiss_index' = vectorstore[s]
  /\ pc' = [pc EXCEPT ![s] = "assign"]
  /\ UNCHANGED <<api_key, temp_pdf, ss_vectorstore, widgets, locals, rendered,
                 notice, chat, index_origin, cr>>

\* save_local raises (the disk is full, a file cannot be written).  It writes the
\* directory in place, and nothing in the script undoes what it wrote before it
\* raised: the directory is as it was, or holds a partly written index.
SaveLocalRaises(s) ==
  /\ pc[s] = "save_local"
  /\ faiss_index' \in {faiss_index, Partial}
  /\ Raise(s)
  /\ UNCHANGED <<api_key, temp_pdf, ss_vectorstore, widgets, rendered, chat,
                 index_origin, cr>>

\* Lines 69-70: the session takes the new index.
Assign(s) ==
  /\ pc[s] = "assign"
  /\ ss_vectorstore' = [ss_vectorstore EXCEPT ![s] = vectorstore[s]]
  /\ index_origin' = [index_origin EXCEPT ![s] = "ingested"]
  /\ notice' = [notice EXCEPT ![s] = @ \cup {"success"}]
  /\ pc' = [pc EXCEPT ![s] = "load_index"]
  /\ docs' = [docs EXCEPT ![s] = NoFile]
  /\ vectorstore' = [vectorstore EXCEPT ![s] = None]
  /\ UNCHANGED <<api_key, shared, widgets, rendered, chat, cr>>

\* ------------------------------------------------------------ load on start

\* Lines 73-75, the condition true: FAISS.load_local deserializes the directory.
LoadIndex(s) ==
  /\ pc[s] = "load_index"
  /\ load_condition(s)
  /\ faiss_index # Partial
  /\ ss_vectorstore' = [ss_vectorstore EXCEPT ![s] = faiss_index]
  /\ index_origin' = [index_origin EXCEPT ![s] = "loaded"]
  /\ pc' = [pc EXCEPT ![s] = "chat"]
  /\ UNCHANGED <<api_key, shared, widgets, locals, rendered, notice, chat, cr>>

\* A partly written directory cannot be deserialized: load_local raises.
LoadIndexRaises(s) ==
  /\ pc[s] = "load_index"
  /\ load_condition(s)
  /\ faiss_index = Partial
  /\ Raise(s)
  /\ UNCHANGED <<api_key, shared, ss_vectorstore, widgets, rendered, chat,
                 index_origin, cr>>

\* Lines 73-75, the condition false.
SkipLoadIndex(s) ==
  /\ pc[s] = "load_index"
  /\ ~load_condition(s)
  /\ pc' = [pc EXCEPT ![s] = "chat"]
  /\ UNCHANGED <<api_key, shared, ss_vectorstore, widgets, locals, rendered,
                 notice, chat, index_origin, cr>>

\* ------------------------------------------------------------------ the chat

\* Lines 77-95 when nothing is to be answered: the history is rendered from
\* messages in order, the chat input is rendered iff retriever is truthy.
Render(s) ==
  /\ pc[s] = "chat"
  /\ ~(retriever(s) /\ prompt[s] # NoPrompt)
  /\ rendered' = [rendered EXCEPT ![s] =
                    IF retriever(s) THEN @ \cup {"chat_input"} ELSE @]
  /\ pc' = [pc EXCEPT ![s] = "idle"]
  /\ UNCHANGED <<api_key, shared, ss_vectorstore, widgets, locals, notice, chat,
                 index_origin, cr>>

\* Lines 95-101: the user turn is appended, then get_relevant_documents raises
\* (retriever is None, the query cannot be embedded, the index cannot be searched).
\* The call stands outside the try block.
ChatRetrievalRaises(s) ==
  /\ pc[s] = "chat"
  /\ retriever(s) /\ prompt[s] # NoPrompt
  /\ rendered' = [rendered EXCEPT ![s] = @ \cup {"chat_input"}]
  /\ messages' = [messages EXCEPT ![s] =
                    Append(@, [role |-> "user", content |-> prompt[s]])]
  /\ n_chats' = [n_chats EXCEPT ![s] = @ + 1]
  /\ n_retrievals' = [n_retrievals EXCEPT ![s] = @ + 1]
  /\ Raise(s)
  /\ UNCHANGED <<api_key, shared, ss_vectorstore, widgets, last_request,
                 n_requests, last_api, index_origin, cr>>

\* Lines 95-119: the user turn is appended, the context retrieved, the request
\* sent with the run's model_option and max_tokens, and the answer (or the error
\* text) appended as the assistant turn.
ChatAnswer(s) ==
  /\ pc[s] = "chat"
  /\ retriever(s) /\ prompt[s] # NoPrompt
  /\ ss_vectorstore[s] # None
  /\ \E retrieved_docs \in get_relevant_documents(ss_vectorstore[s]),
        outcome \in ApiOutcomes :
       LET answer == bot_response(outcome)
           user == [role |-> "user", content |-> prompt[s]]
       IN /\ last_request' =
               [last_request EXCEPT ![s] =
                  [model |-> model_option[s], max_tokens |-> max_tokens[s],
                   context |-> retrieved_docs, question |-> prompt[s]]]
          /\ last_api' = [last_api EXCEPT ![s] =
                            IF outcome.kind = "text" THEN "ok" ELSE "failed"]
          /\ messages' = [messages EXCEPT ![s] =
                            IF answer.raised
                              THEN Append(@, user)
                              ELSE Append(Append(@, user),
                                          [role |-> "assistant",
                                           content |-> answer.content])]
          /\ notice' = [notice EXCEPT ![s] =
                          IF answer.raised THEN @ \cup {"exception"} ELSE @]
  /\ rendered' = [rendered EXCEPT ![s] = @ \cup {"chat_input"}]
  /\ n_chats' = [n_chats EXCEPT ![s] = @ + 1]
  /\ n_retrievals' = [n_retrievals EXCEPT ![s] = @ + 1]
  /\ n_requests' = [n_requests EXCEPT ![s] = @ + 1]
  /\ pc' = [pc EXCEPT ![s] = "idle"]
  /\ UNCHANGED <<api_key, shared, ss_vectorstore, widgets, locals, index_origin,
                 cr>>

\* ----------------------------------------------------------- specifications

Ingestion(s) ==
  \/ WriteTemp(s)
  \/ LoadPdf(s)
  \/ LoadPdfRaises(s)
  \/ Build(s)
  \/ BuildRaises(s)
  \/ SaveLocal(s)
  \/ SaveLocalRaises(s)
  \/ Assign(s)
  \/ LoadIndex(s)
  \/ LoadIndexRaises(s)
  \/ SkipLoadIndex(s)

\* One session, with or without the credential: every event, every step.
Next ==
  \E s \in SingleSession :
    \/ PageLoad(s)
    \/ SelectModel(s)
    \/ MoveSlider(s)
    \/ Upload(s)
    \/ RemoveFile(s)
    \/ SubmitChat(s)
    \/ Ingestion(s)
    \/ Render(s)
    \/ ChatRetrievalRaises(s)
    \/ ChatAnswer(s)

Spec == Init /\ [][Next]_vars

\* Two sessions of one process (two tabs, or a page reloaded), their runs
\* interleaved step by step; the model and the slider stay as they are and no
\* question is asked.
InitSessions == Init /\ api_key

NextSessions ==
  \E s \in Sessions :
    \/ PageLoad(s)
    \/ Upload(s)
    \/ RemoveFile(s)
    \/ Ingestion(s)
    \/ Render(s)

SpecSessions == InitSessions /\ [][NextSessions]_vars

\* clean_response applied to a text, and to its own result.
InitClean ==
  /\ InitProgram
  /\ api_key = TRUE
  /\ faiss_index = Missing
  /\ cr_input \in Texts
  /\ cr_once = <<>>
  /\ cr_twice = <<>>
  /\ cr_pc = 0

ApplyClean ==
  /\ cr_pc = 0
  /\ cr_once' = clean_response(cr_input)
  /\ cr_pc' = 1
  /\ UNCHANGED <<api_key, shared, ss_vectorstore, widgets, locals, pc, rendered,
                 notice, chat, index_origin, cr_input, cr_twice>>

ApplyCleanAgain ==
  /\ cr_pc = 1
  /\ cr_twice' = clean_response(cr_once)
  /\ cr_pc' = 2
  /\ UNCHANGED <<api_key, shared, ss_vectorstore, widgets, locals, pc, rendered,
                 notice, chat, index_origin, cr_input, cr_once>>

NextClean == ApplyClean \/ ApplyCleanAgain

SpecClean == InitClean /\ [][NextClean]_vars

\* ------------------------------------------------------------------- claims

HasPrefix(text, pre) ==
  Len(text) >= Len(pre) /\ SubSeq(text, 1, Len(pre)) = pre

Last(seq) == seq[Len(seq)]

\* Session s sends a completion request in this step and the call, or the
\* cleaning of its reply, fails.
CompletionFails(s) ==
  n_requests'[s] = n_requests[s] + 1 /\ last_api'[s] = "failed"

\* C1: when a chat submission is handled and the completion call (or the cleaning
\* of its reply) fails, no exception leaves the handling: the user turn and exactly
\* one assistant turn, whose content starts with "Error: ", are appended, and the
\* run ends with the chat input rendered, so that the next submission is accepted.
C1_FailSoft ==
  [][\A s \in Sessions :
       CompletionFails(s) =>
         /\ Len(messages'[s]) = Len(messages[s]) + 2
         /\ SubSeq(messages'[s], 1, Len(messages[s])) = messages[s]
         /\ messages'[s][Len(messages[s]) + 1] =
              [role |-> "user", content |-> prompt[s]]
         /\ Last(messages'[s]).role = "assistant"
         /\ HasPrefix(Last(messages'[s]).content, ErrorPrefix)
         /\ "exception" \notin notice'[s]
         /\ pc'[s] = "idle"
         /\ "chat_input" \in rendered'[s]]_vars

\* C1 witness: a failed call gave the second turn, and a later submission of the
\* same session was answered normally.
C1_Witness ==
  \E s \in Sessions :
    /\ pc[s] = "idle"
    /\ Len(messages[s]) = 4
    /\ HasPrefix(messages[s][2].content, ErrorPrefix)
    /\ last_api[s] = "ok"
    /\ messages[s][4] = [role |-> "assistant", content |-> <<"b">>]

\* The turns of a log alternate user, assistant, starting with user.
Alternates(log) ==
  \A i \in 1..Len(log) :
    log[i].role = IF i % 2 = 1 THEN "user" ELSE "assistant"

\* C2: after N chat submissions of a session have been accepted and handled, its
\* log has length 2N and alternates user, assistant, starting with user, whatever
\* the retrieval and the model call did; turns in the log are never changed,
\* reordered or removed.
C2_TwoTurnsPerCycle ==
  [][\A s \in Sessions :
       /\ Len(messages'[s]) >= Len(messages[s])
       /\ SubSeq(messages'[s], 1, Len(messages[s])) = messages[s]
       /\ pc'[s] = "idle" =>
            /\ Len(messages'[s]) = 2 * n_chats'[s]
            /\ Alternates(messages'[s])]_vars

\* Every "<" of the text begins a whole <think> or </think>: no tag fragments.
WholeTagsOnly(text) ==
  \A i \in 1..Len(text) :
    text[i] = "<" => IsAt(text, ThinkOpen, i) \/ IsAt(text, ThinkClose, i)

\* C3 as stated: clean_response(clean_response(x)) = clean_response(x) for every
\* text x, tags formed from fragments included.
C3_Idempotent == cr_pc = 2 => cr_twice = cr_once

\* C3 amended: clean_response(clean_response(x)) = clean_response(x) for every text
\* x in which every "<" begins a whole <think> or </think> tag.
C3_IdempotentOnWholeTags ==
  (cr_pc = 2 /\ WholeTagsOnly(cr_input)) => cr_twice = cr_once

\* C3 witness: a text of whole tags from which a pair that spans a newline was
\* removed, cleaned twice.
C3_Witness ==
  /\ cr_pc = 2
  /\ WholeTagsOnly(cr_input)
  /\ cr_input = ThinkOpen \o <<"\n">> \o ThinkClose \o <<"a">> \o ThinkOpen
  /\ cr_once = <<"a">> \o ThinkOpen
  /\ cr_twice = cr_once

IngestionPcs == {"write_temp", "load_pdf", "build", "save_local", "assign"}

\* The ingestion run of session s fails in this step.
IngestionFails(s) ==
  pc[s] \in IngestionPcs /\ pc'[s] = "idle" /\ "exception" \in notice'[s]

\* C4: when an ingestion run fails, at the parse or at any later step, the
\* session-held index and the persisted index are what they were: no partly built
\* index is visible in either place.
C4_FailedIngestionKeepsIndexes ==
  [][\A s \in Sessions :
       IngestionFails(s) =>
         /\ ss_vectorstore'[s] = ss_vectorstore[s]
         /\ faiss_index' = faiss_index
         /\ faiss_index' # Partial]_vars

\* C5: a successful ingestion leaves in the persisted index and in the session
\* exactly the chunks of the uploaded PDF, and in a single session the session-held
\* index, whenever present (between runs), has the content of the persisted index.
C5_SessionIndexIsPersistedIndex ==
  [][\A s \in SingleSession :
       /\ (pc[s] = "assign" /\ pc'[s] # "assign") =>
            /\ ss_vectorstore'[s] = FAISS(Chunks(uploaded_file[s]))
            /\ faiss_index' = FAISS(Chunks(uploaded_file[s]))
       /\ (pc'[s] = "idle" /\ ss_vectorstore'[s] # None) =>
            ss_vectorstore'[s] = faiss_index']_vars

\* Session s deserializes the persisted index in this step.
Loads(s) ==
  /\ pc[s] = "load_index"
  /\ pc'[s] = "chat"
  /\ index_origin[s] # "loaded"
  /\ index_origin'[s] = "loaded"

\* The load step of session s ends in this step.
LoadStepDone(s) == pc[s] = "load_index" /\ pc'[s] = "chat"

IngestionOccurred == \E t \in Sessions : index_origin[t] = "ingested"

\* C6 as stated: the persisted index is loaded only when no ingestion has occurred
\* yet in the process and a persisted index exists; a load never replaces an
\* ingested index; after the load step the index is absent exactly when no
\* ingestion has occurred and no persisted index exists.
C6_LoadOnlyBeforeAnyIngestion ==
  [][\A s \in Sessions :
       /\ Loads(s) =>
            /\ ~IngestionOccurred
            /\ faiss_index # Missing
            /\ index_origin[s] # "ingested"
       /\ LoadStepDone(s) =>
            (ss_vectorstore'[s] = None
               <=> (~IngestionOccurred /\ faiss_index = Missing))]_vars

\* C6 amended: the persisted index is loaded into a session only when that session
\* holds no index (it has neither ingested nor loaded one) and a persisted index
\* exists, whether or not another session of the process has ingested; a load never
\* replaces an ingested index; after the load step the session's index is absent
\* exactly when the session held none and no persisted index exists.
C6_LoadOnlyWithoutSessionIndex ==
  [][\A s \in Sessions :
       /\ Loads(s) =>
            /\ ss_vectorstore[s] = None
            /\ index_origin[s] = "none"
            /\ faiss_index # Missing
            /\ ss_vectorstore'[s] = faiss_index
       /\ LoadStepDone(s) =>
            (ss_vectorstore'[s] = None
               <=> (ss_vectorstore[s] = None /\ faiss_index = Missing))]_vars

\* C6 witness: a session has loaded the index that another session of the process
\* ingested.
C6_Witness ==
  \E s, t \in Sessions :
    /\ index_origin[s] = "loaded"
    /\ index_origin[t] = "ingested"
    /\ ss_vectorstore[s] = FAISS(Chunks("B"))
    /\ pc[s] = "idle"

\* C7: while a session has no index, no question of it is handled: the chat input
\* is not rendered, no retrieval is performed, no request is sent and no turn is
\* appended; the chat input is rendered only once an index was ingested or loaded.
C7_NotReady ==
  \A s \in Sessions :
    /\ ss_vectorstore[s] = None =>
         /\ "chat_input" \notin rendered[s]
         /\ prompt[s] = NoPrompt
         /\ messages[s] = <<>>
         /\ n_chats[s] = 0
         /\ n_retrievals[s] = 0
         /\ n_requests[s] = 0
         /\ last_request[s] = NoRequest
    /\ "chat_input" \in rendered[s] => index_origin[s] \in {"ingested", "loaded"}

\* C7 witness: with the credential set, a run has ended after a failed ingestion
\* and the session has no index.
C7_Witness ==
  \E s \in Sessions :
    /\ api_key
    /\ pc[s] = "idle"
    /\ ss_vectorstore[s] = None
    /\ uploaded_file[s] = "A"
    /\ "exception" \in notice[s]
    /\ rendered[s] = Sidebar

\* C8: without the credential every run halts at the check with a message, before
\* any UI interaction is possible: the widgets keep their initial values, no file
\* is written, no index is loaded or persisted, no request is sent and no turn is
\* appended.
C8_HaltsBeforeAnyInteraction ==
  ~api_key =>
    /\ temp_pdf = NoFile
    /\ \A s \in Sessions :
         /\ pc[s] = "idle"
         /\ rendered[s] # {} => notice[s] = {"api_key_error"}
         /\ model_option[s] = default_model
         /\ max_tokens[s] = slider_default
         /\ uploaded_file[s] = NoFile
         /\ ss_vectorstore[s] = None
         /\ index_origin[s] = "none"
         /\ messages[s] = <<>>
         /\ n_requests[s] = 0

\* C9: the max_tokens of a request is a multiple of 512 between 512 and the ceiling
\* of the model of the same request, and is 1024 when the slider was never moved.
C9_MaxTokensWithinCeiling ==
  \A s \in Sessions :
    last_request[s] # NoRequest =>
      /\ last_request[s].max_tokens % 512 = 0
      /\ last_request[s].max_tokens >= 512
      /\ last_request[s].max_tokens <= models[last_request[s].model]
      /\ ~slider_moved[s] => last_request[s].max_tokens = 1024

\* C9 witness: a request for a model with the ceiling 8192, sent by a session whose
\* slider was moved and stands at its default.
C9_Witness ==
  \E s \in Sessions :
    /\ last_request[s] # NoRequest
    /\ last_request[s].model = "llama3-8b-8192"
    /\ slider_moved[s]
    /\ last_request[s].max_tokens = slider_default

\* C10: after an ingestion of a session, with the steps of two sessions
\* interleaved, the session-held index holds the chunks of the PDF this session
\* uploaded and none of the other session's PDF.
C10_SessionsIsolated ==
  \A s \in Sessions :
    (pc[s] = "idle" /\ "success" \in notice[s]) =>
      ss_vectorstore[s] = FAISS(Chunks(uploaded_file[s]))

====
